---------------------------- MODULE Spec2Model ----------------------------
(***************************************************************************)
(* IdMark page (IdMarkPage component): file selection and validation,      *)
(* asynchronous decode (FileReader, PDF.js), watermark compositing on a    *)
(* canvas (tiling loop) and download naming.                               *)
(*                                                                         *)
(* Conventions                                                             *)
(*  - JavaScript strings that the code inspects (file names, MIME types,   *)
(*    watermark text) are sequences of one-character strings, so that      *)
(*    split/pop/join, startsWith and trim are computed, not assumed.       *)
(*  - A data URL is represented by the image it encodes: the file object   *)
(*    it was decoded from, its pixel size and the watermark layers drawn   *)
(*    on it.                                                               *)
(*  - Lengths are exact: fontSize is kept as 25*fontSize, the diagonal     *)
(*    sqrt(W^2+H^2) is only ever compared through squares.  The one        *)
(*    IEEE-754 effect that changes control flow, the rounding of the       *)
(*    accumulated loop variable when it lands exactly on the loop bound,   *)
(*    is the environment choice fp.                                        *)
(*  - The body of a JavaScript callback is atomic (single-threaded event   *)
(*    loop).  The tiling loop is unrolled into steps only so that its      *)
(*    termination can be examined; nothing else runs while it runs.        *)
(***************************************************************************)
EXTENDS Integers, Sequences, FiniteSets, TLC

\* ------------------------------------------------------------------ bounds
MaxSelections == 2      \* file-input change events per behaviour
MaxApplies    == 2      \* Apply Watermark clicks per behaviour
MaxDownloads  == 1      \* Download clicks per behaviour

\* ------------------------------------------------------- program constants
SizeLimit     == 20 * 1024 * 1024
PdfScale      == 2
MinFontSize   == 12
FontDivisor   == 25
MinRows       == 5

\* --------------------------------------------------------- string literals
Null == [kind |-> "null"]
NULL == "null"

PdfType        == <<"a", "p", "p", "l", "i", "c", "a", "t", "i", "o", "n", "/", "p", "d", "f">>
ImagePrefix    == <<"i", "m", "a", "g", "e", "/">>
DefaultText    == <<"C", "O", "N", "F", "I", "D", "E", "N", "T", "I", "A", "L">>
DefaultExt     == <<"p", "n", "g">>
DefaultName    == <<"d", "o", "c", "u", "m", "e", "n", "t">>
Suffix         == <<"_", "w", "a", "t", "e", "r", "m", "a", "r", "k", "e", "d", ".">>

ErrUnsupported == "Unsupported file type. Please upload an image (PNG, JPG) or PDF."
ErrTooLarge    == "File is too large. Maximum size is 20MB."
ErrRead        == "Failed to read the file."
ErrPdfContext  == "Failed to get canvas context for PDF page."
ErrPdfLibrary  == "Invalid PDF structure."
ErrNoPreview   == "Original image not loaded or no preview available for watermarking."
ErrContext     == "Could not get canvas context."
ErrImgLoad     == "Failed to load image for watermarking. The image data might be corrupted or the format is unsupported by the browser for canvas operations."

\* ------------------------------------------------------------ input domain
\* Files offered to the file input.  W, H: intrinsic size of the picture
\* (for a PDF, of page 1 at scale 1).  ok: the bytes decode (image) or parse
\* (PDF).
PngType  == <<"i", "m", "a", "g", "e", "/", "p", "n", "g">>
JpegType == <<"i", "m", "a", "g", "e", "/", "j", "p", "e", "g">>
SvgType  == <<"i", "m", "a", "g", "e", "/", "s", "v", "g", "+", "x", "m", "l">>
TextType == <<"t", "e", "x", "t", "/", "p", "l", "a", "i", "n">>

Files ==
  { [name |-> <<"p", "a", "s", "s", "p", "o", "r", "t", ".", "p", "d", "f">>,
     type |-> PdfType,  size |-> SizeLimit,     W |-> 15, H |-> 20, ok |-> TRUE],
    [name |-> <<"i", "d", ".", "p", "n", "g">>,
     type |-> PngType,  size |-> 1024,          W |-> 40, H |-> 30, ok |-> TRUE],
    [name |-> <<"n", "o", "t", "e", "s", ".", "t", "x", "t">>,
     type |-> TextType, size |-> 100,           W |-> 0,  H |-> 0,  ok |-> FALSE],
    [name |-> <<"b", "i", "g", ".", "p", "n", "g">>,
     type |-> PngType,  size |-> SizeLimit + 1, W |-> 30, H |-> 40, ok |-> TRUE],
    [name |-> <<"h", "u", "g", "e", ".", "e", "x", "e">>,
     type |-> <<>>,     size |-> SizeLimit + 1, W |-> 0,  H |-> 0,  ok |-> FALSE],
    [name |-> <<"b", "r", "o", "k", "e", "n", ".", "p", "n", "g">>,
     type |-> PngType,  size |-> 300,           W |-> 0,  H |-> 0,  ok |-> FALSE],
    [name |-> <<"b", "r", "o", "k", "e", "n", ".", "p", "d", "f">>,
     type |-> PdfType,  size |-> 300,           W |-> 0,  H |-> 0,  ok |-> FALSE],
    [name |-> <<"e", "m", "p", "t", "y", ".", "s", "v", "g">>,
     type |-> SvgType,  size |-> 200,           W |-> 0,  H |-> 0,  ok |-> TRUE] }

\* Further documents for the study of one watermark application and of the
\* download name (larger pictures, other shapes of file name).
MoreDocuments ==
  { [name |-> <<"m", "y", ".", "i", "d", ".", "c", "a", "r", "d", ".", "j", "p", "g">>,
     type |-> JpegType, size |-> 4096, W |-> 1000, H |-> 1000, ok |-> TRUE],
    [name |-> <<"s", "c", "a", "n">>,
     type |-> PngType,  size |-> 2048, W |-> 250,  H |-> 250,  ok |-> TRUE],
    [name |-> <<"c", "o", "n", "t", "r", "a", "c", "t">>,
     type |-> PdfType,  size |-> 4096, W |-> 3,    H |-> 4,    ok |-> TRUE],
    [name |-> <<"c", "a", "r", "d", ".">>,
     type |-> PngType,  size |-> 512,  W |-> 300,  H |-> 400,  ok |-> TRUE],
    [name |-> <<".", "p", "n", "g">>,
     type |-> JpegType, size |-> 512,  W |-> 400,  H |-> 301,  ok |-> TRUE] }

\* Texts typed into the watermark input.  "zwsp" stands for U+200B, a
\* character without advance width.
ZeroWidth == {"zwsp"}
Texts ==
  { DefaultText, <<" ", " ", " ">>, <<"zwsp">> }

MoreTexts ==
  { <<>>, <<"A">>, <<" ", "A", " ">> }

\* ------------------------------------------------------- string operations
\* String.prototype.startsWith
StartsWith(s, p) ==
  /\ Len(s) >= Len(p)
  /\ SubSeq(s, 1, Len(p)) = p

\* Index of the first "." of s at or after position i, 0 if none.
RECURSIVE IndexOfDot(_, _)
IndexOfDot(s, i) ==
  IF i > Len(s) THEN 0
  ELSE IF s[i] = "." THEN i
  ELSE IndexOfDot(s, i + 1)

\* String.prototype.split('.'): the sequence of the parts between dots.
RECURSIVE Split(_)
Split(s) ==
  LET k == IndexOfDot(s, 1)
  IN  IF k = 0 THEN <<s>>
      ELSE <<SubSeq(s, 1, k - 1)>> \o Split(SubSeq(s, k + 1, Len(s)))

\* Variant of Join: the parts are joined without separator.
RECURSIVE JoinNoDot(_)
JoinNoDot(parts) ==
  IF parts = <<>> THEN <<>>
  ELSE parts[1] \o JoinNoDot(Tail(parts))

\* Array.prototype.join('.')
RECURSIVE Join(_)
Join(parts) ==
  IF parts = <<>> THEN <<>>
  ELSE IF Len(parts) = 1 THEN parts[1]
  ELSE parts[1] \o <<".">> \o Join(Tail(parts))

\* a || b on strings: b when a is the empty string.
OrElse(a, b) == IF a = <<>> THEN b ELSE a

\* ---------------------------------------------------------------- numbers
Min(a, b) == IF a < b THEN a ELSE b
Max(a, b) == IF a > b THEN a ELSE b
CeilDiv(a, b) == (a + b - 1) \div b

\* Least r in lo..hi with r*r >= n (hi*hi >= n).
RECURSIVE SqrtSearch(_, _, _)
SqrtSearch(lo, hi, n) ==
  IF lo >= hi THEN hi
  ELSE LET mid == (lo + hi) \div 2
       IN  IF mid * mid >= n THEN SqrtSearch(lo, mid, n)
           ELSE SqrtSearch(mid + 1, hi, n)

\* ceil(sqrt(n))
ISqrtCeil(n) == SqrtSearch(0, 46340, n)

\* A JavaScript Number that is a natural, Infinity or NaN.
Fin(n)   == [kind |-> "fin", n |-> n]
Infinity == [kind |-> "inf", n |-> 0]
NaN      == [kind |-> "nan", n |-> 0]

\* ------------------------------------------------- watermark geometry
\* Variant of FontSize25: no floor of 12.
FontSize25NoFloor(W, H) == Min(W, H)

\* Math.max(12, Math.min(w, h) / 25), as 25 * fontSize.
FontSize25(W, H) == Max(MinFontSize * FontDivisor, Min(W, H))

\* ctx.measureText(text).width in px at the font bold <fontSize>px
\* sans-serif: half an em for every glyph that has an advance width.
MeasureText(text, fontSize25) ==
  (Cardinality({i \in 1..Len(text) : text[i] \notin ZeroWidth}) * fontSize25)
     \div (2 * FontDivisor)

\* canvas.width^2 + canvas.height^2 (diagonalLength squared)
DiagonalSq(W, H) == W * W + H * H

\* Math.ceil(diagonalLength / (textWidth * 0.7))
Repetitions(W, H, textWidth) ==
  IF DiagonalSq(W, H) = 0
  THEN IF textWidth = 0 THEN NaN ELSE Fin(0)
  ELSE IF textWidth = 0 THEN Infinity
       ELSE Fin(CeilDiv(ISqrtCeil(100 * DiagonalSq(W, H)), 7 * textWidth))

\* Variant of StepDivisor: no floor of 5.
StepDivisorNoFloor(repetitions) == repetitions

\* Math.max(5, repetitions)
StepDivisor(repetitions) ==
  IF repetitions.kind = "fin" THEN Fin(Max(MinRows, repetitions.n))
  ELSE repetitions

\* diagonalLength / Math.max(5, repetitions), as the divisor of the diagonal:
\* "frac" n is diagonalLength / n > 0, "zero" is 0, "nan" is NaN.
Step(W, H, divisor) ==
  IF divisor.kind = "nan" THEN [kind |-> "nan", n |-> 0]
  ELSE IF divisor.kind = "inf" \/ DiagonalSq(W, H) = 0 THEN [kind |-> "zero", n |-> 0]
  ELSE [kind |-> "frac", n |-> divisor.n]

\* The loop variables are multiples of 1/4 (the diagonal is an integer d and
\* 2 * d / n is one too): every double involved is exact.
ExactSteps(W, H, n) ==
  LET d == ISqrtCeil(DiagonalSq(W, H))
  IN  d * d = DiagonalSq(W, H) /\ (2 * d) % n = 0

\* y < diagonalLength / 2 after i additions of step to -diagonalLength / 2.
\* below: when the exact sum equals the bound, the accumulated double is
\* below it.
RowCondition(W, H, step, i, below) ==
  IF DiagonalSq(W, H) = 0 THEN FALSE
  ELSE IF step.kind = "zero" THEN TRUE
  ELSE IF step.kind = "nan" THEN FALSE
  ELSE i < step.n \/ (i = step.n /\ below /\ ~ExactSteps(W, H, step.n))

\* Variant of ColCondition: x advances by step * 5.
ColConditionSparser(W, H, step, j, below) ==
  IF DiagonalSq(W, H) = 0 THEN FALSE
  ELSE IF step.kind = "zero" THEN TRUE
  ELSE IF step.kind = "nan" THEN FALSE
  ELSE 5 * j < step.n
         \/ (5 * j = step.n /\ below /\ ~ExactSteps(W, H, step.n))

\* x < diagonalLength / 2 after j additions of step * 2.5.
ColCondition(W, H, step, j, below) ==
  IF DiagonalSq(W, H) = 0 THEN FALSE
  ELSE IF step.kind = "zero" THEN TRUE
  ELSE IF step.kind = "nan" THEN FALSE
  ELSE 5 * j < 2 * step.n
         \/ (5 * j = 2 * step.n /\ below /\ ~ExactSteps(W, H, step.n))

\* The inner loop at row i: the grid points <<j, i>> it draws, i.e.
\* fillText(text, -d/2 + j * 2.5 * step, -d/2 + i * step).  With step 0 the
\* loop never leaves j = 0.
RECURSIVE RowPoints(_, _, _, _, _, _)
RowPoints(W, H, step, i, j, below) ==
  IF step.kind = "zero" THEN {<<0, 0>>}
  ELSE IF ~ColCondition(W, H, step, j, below) THEN {}
  ELSE {<<j, i>>} \cup RowPoints(W, H, step, i, j + 1, below)

\* The corners of the W x H canvas, as <<2 * x, 2 * y>>.
Corners(W, H) == {<<2 * x, 2 * y>> : x \in {0, W}, y \in {0, H}}

\* Variant of FrameCoordinates: the rotation is about the canvas origin.
FrameCoordinatesUncentred(p, W, H) == <<p[1] - p[2], p[1] + p[2]>>

\* ctx.translate(W / 2, H / 2); ctx.rotate(-Math.PI / 4): the coordinates,
\* times 2 * sqrt(2), that the canvas point p (as <<2 * x, 2 * y>>) has in
\* the frame the tiling loop draws in.
FrameCoordinates(p, W, H) ==
  <<(p[1] - W) - (p[2] - H), (p[1] - W) + (p[2] - H)>>

\* The context's transform: the matrix [a c e; b d f; 0 0 1] whose entries
\* <<p, q>> are the numbers (p + q * sqrt 2) / 4.
IdentityTransform ==
  [a |-> <<4, 0>>, b |-> <<0, 0>>, c |-> <<0, 0>>, d |-> <<4, 0>>,
   e |-> <<0, 0>>, f |-> <<0, 0>>]

Plus(x, y)    == <<x[1] + y[1], x[2] + y[2]>>
Times(n, x)   == <<n * x[1], n * x[2]>>
\* x * n / 2
TimesHalf(x, n) == <<(x[1] * n) \div 2, (x[2] * n) \div 2>>
\* x * sqrt 2 / 2, the cosine of 45 degrees
TimesCos(x)   == <<x[2], x[1] \div 2>>

\* ctx.translate(tx2 / 2, ty2 / 2)
Translate(m, tx2, ty2) ==
  [m EXCEPT !.e = Plus(@, Plus(TimesHalf(m.a, tx2), TimesHalf(m.c, ty2))),
            !.f = Plus(@, Plus(TimesHalf(m.b, tx2), TimesHalf(m.d, ty2)))]

\* ctx.rotate(sign * Math.PI / 4), sign 1 or -1
Rotate(m, sign) ==
  [m EXCEPT !.a = Plus(TimesCos(m.a), Times(sign, TimesCos(m.c))),
            !.b = Plus(TimesCos(m.b), Times(sign, TimesCos(m.d))),
            !.c = Plus(Times(-sign, TimesCos(m.a)), TimesCos(m.c)),
            !.d = Plus(Times(-sign, TimesCos(m.b)), TimesCos(m.d))]

\* ctx.translate(W / 2, H / 2); ctx.rotate(angle) with angle = -Math.PI / 4
TilingTransform(m, W, H) == Rotate(Translate(m, W, H), -1)

\* Variant of ResetTransform: the rotation is undone, the translation is not.
ResetTransformRotationOnly(m, W, H) == Rotate(m, 1)

\* ctx.rotate(-angle); ctx.translate(-W / 2, -H / 2)
ResetTransform(m, W, H) == Translate(Rotate(m, 1), -W, -H)

\* const text = watermarkText || "CONFIDENTIAL"
EffectiveText(watermarkText) == OrElse(watermarkText, DefaultText)

\* Variant of DownloadName: no fallbacks, and the extension rather than the
\* type decides on 'png'.
DownloadNameNoFallback(name, type) ==
  LET fileNameParts == Split(name)
      extension     == fileNameParts[Len(fileNameParts)]
      rest          == SubSeq(fileNameParts, 1, Len(fileNameParts) - 1)
  IN  Join(rest) \o Suffix \o
        (IF extension = <<"p", "d", "f">> THEN DefaultExt ELSE extension)

\* link.download computed by handleDownload from originalFile.name and
\* originalFile.type.
DownloadName(name, type) ==
  LET fileNameParts        == Split(name)
      extension            == OrElse(fileNameParts[Len(fileNameParts)], DefaultExt)
      rest                 == SubSeq(fileNameParts, 1, Len(fileNameParts) - 1)
      nameWithoutExtension == OrElse(Join(rest), DefaultName)
  IN  nameWithoutExtension \o Suffix \o
        (IF type = PdfType THEN DefaultExt ELSE extension)

\* Variant of UnsupportedType: only the size is validated.
UnsupportedTypeUnchecked(type) == FALSE

\* file.type !== 'application/pdf' && !file.type.startsWith('image/')
UnsupportedType(type) == type # PdfType /\ ~StartsWith(type, ImagePrefix)

\* Variant of TooLarge: the limit itself is rejected.
TooLargeExclusive(size) == size >= SizeLimit

\* file.size > 20 * 1024 * 1024
TooLarge(size) == size > SizeLimit

\* ------------------------------------------------------------------- state
VARIABLES
  originalFile,             \* File | null
  originalImagePreviewSrc,  \* data URL of the decoded source | null
  watermarkText,            \* content of the text input
  watermarkedImageSrc,      \* data URL of the watermarked canvas | null
  isLoading,
  progress,
  error,                    \* message | null
  readers,                  \* decodes in flight (FileReader + PDF.js promises)
  images,                   \* in-memory Image objects loading for applyWatermark
  canvas,                   \* the img.onload callback that is running, if any
  downloads,                \* downloads triggered so far
  fp,                       \* rounding of the accumulated loop variables
  nsel,                     \* file objects created so far
  napply                    \* Image objects created so far

vars == <<originalFile, originalImagePreviewSrc, watermarkText, watermarkedImageSrc,
          isLoading, progress, error, readers, images, canvas, downloads, fp,
          nsel, napply>>

Idle == [pc |-> "idle"]

\* Neither accumulated loop variable ends below its exact value (the case of
\* every picture of Files: their steps are exact).
ExactRounding == [row |-> FALSE, col |-> FALSE]

\* The React state that the handlers write (everything but watermarkText).
State ==
  [originalFile            |-> originalFile,
   originalImagePreviewSrc |-> originalImagePreviewSrc,
   watermarkedImageSrc     |-> watermarkedImageSrc,
   isLoading               |-> isLoading,
   progress                |-> progress,
   error                   |-> error]

\* The batched state updates of one handler run take effect.
Commit(s) ==
  /\ originalFile'            = s.originalFile
  /\ originalImagePreviewSrc' = s.originalImagePreviewSrc
  /\ watermarkedImageSrc'     = s.watermarkedImageSrc
  /\ isLoading'               = s.isLoading
  /\ progress'                = s.progress
  /\ error'                   = s.error

\* The File object of the n-th selection.
FileObject(f, n) ==
  [sel |-> n, name |-> f.name, type |-> f.type, size |-> f.size,
   W |-> f.W, H |-> f.H, ok |-> f.ok]

\* reader.result of an image file: the file's own bytes as a data URL.
ImageDataUrl(file) ==
  [file |-> file, W |-> file.W, H |-> file.H, ok |-> file.ok, marks |-> <<>>]

\* canvas.toDataURL('image/png') of page 1 rendered at viewport scale 2.0.
PdfPageDataUrl(file) ==
  [file |-> file, W |-> PdfScale * file.W, H |-> PdfScale * file.H,
   ok |-> TRUE, marks |-> <<>>]

Init ==
  /\ originalFile = Null
  /\ originalImagePreviewSrc = Null
  /\ watermarkText = DefaultText
  /\ watermarkedImageSrc = Null
  /\ isLoading = FALSE
  /\ progress = 0
  /\ error = NULL
  /\ readers = {}
  /\ images = {}
  /\ canvas = Idle
  /\ downloads = <<>>
  /\ fp = ExactRounding
  /\ nsel = 0
  /\ napply = 0

\* ------------------------------------------------------------------ render
\* What the page renders in the current state (the JSX conditions).

\* "Customize Watermark" card with the text input and the Apply button.
CustomizeCard ==
  originalImagePreviewSrc # Null /\ ~isLoading /\ error = NULL

\* Variant of PreviewCard: the card does not look at error.
PreviewCardDespiteError ==
  (originalImagePreviewSrc # Null \/ watermarkedImageSrc # Null) /\ ~isLoading

\* "Preview & Download" card.
PreviewCard ==
  /\ (originalImagePreviewSrc # Null \/ watermarkedImageSrc # Null)
  /\ ~isLoading
  /\ error = NULL

\* The two <img> elements of the card and the button of its footer.
OriginalPreview    == PreviewCard /\ originalImagePreviewSrc # Null
WatermarkedPreview == PreviewCard /\ watermarkedImageSrc # Null
DownloadButton     == PreviewCard /\ watermarkedImageSrc # Null

\* ------------------------------------------------- file selection and reset
\* Variant of resetState: the preview is left to the effect on originalFile.
resetStateKeepsPreview(s) ==
  [s EXCEPT !.originalFile = Null,
            !.watermarkedImageSrc = Null,
            !.isLoading = FALSE,
            !.progress = 0,
            !.error = NULL]

resetState(s) ==
  [s EXCEPT !.originalFile = Null,
            !.originalImagePreviewSrc = Null,
            !.watermarkedImageSrc = Null,
            !.isLoading = FALSE,
            !.progress = 0,
            !.error = NULL]

\* The state updates of handleFileChange for event.target.files[0] = file
\* (Null: no file).
handleFileChange(s, file) ==
  LET r == resetState(s)
  IN  IF file = Null THEN r
      ELSE IF UnsupportedType(file.type) THEN [r EXCEPT !.error = ErrUnsupported]
      ELSE IF TooLarge(file.size) THEN [r EXCEPT !.error = ErrTooLarge]
      ELSE [r EXCEPT !.originalFile = file]

\* The synchronous part of useEffect(..., [originalFile, toast, resetState]),
\* run after a render in which originalFile differs from before.
useEffectOriginalFile(before, s) ==
  IF s.originalFile = before THEN s
  ELSE IF s.originalFile = Null THEN [s EXCEPT !.originalImagePreviewSrc = Null]
  ELSE [s EXCEPT !.isLoading = TRUE, !.progress = 10, !.error = NULL]

\* reader.readAsDataURL(originalFile), started by the same effect run.
StartedReaders(before, s) ==
  IF s.originalFile = before \/ s.originalFile = Null THEN {}
  ELSE {[file |-> s.originalFile, stage |-> "read"]}

HandleFileChangeOn(file) ==
  /\ canvas = Idle
  /\ nsel < MaxSelections
  /\ LET s == handleFileChange(State, file)
     IN  /\ Commit(useEffectOriginalFile(originalFile, s))
         /\ readers' = readers \cup StartedReaders(originalFile, s)
  /\ nsel' = nsel + 1
  /\ UNCHANGED <<watermarkText, images, canvas, downloads, fp, napply>>

HandleFileChange ==
  \/ \E f \in Files : HandleFileChangeOn(FileObject(f, nsel + 1))
  \/ HandleFileChangeOn(Null)

\* "Clear Selection & Reset" button, rendered while originalFile is set.
ResetClick ==
  /\ canvas = Idle
  /\ originalFile # Null
  /\ LET s == resetState(State)
     IN  /\ Commit(useEffectOriginalFile(originalFile, s))
         /\ readers' = readers \cup StartedReaders(originalFile, s)
  /\ UNCHANGED <<watermarkText, images, canvas, downloads, fp, nsel, napply>>

\* ------------------------------------------------------------------ decode
\* catch (err) { ... } finally { setIsLoading(false) } of reader.onload
decodeFailed(s, message) ==
  [s EXCEPT !.error = message,
            !.originalImagePreviewSrc = Null,
            !.isLoading = FALSE]

\* end of the try block of reader.onload, then finally
decodeDone(s, imageSrc) ==
  [s EXCEPT !.originalImagePreviewSrc = imageSrc,
            !.progress = 100,
            !.isLoading = FALSE]

\* reader.onload up to its first await (PDF) or to its end (image).
ReaderOnLoad(r) ==
  /\ canvas = Idle
  /\ r \in readers
  /\ r.stage = "read"
  /\ IF r.file.type = PdfType
     THEN /\ Commit([State EXCEPT !.progress = 30])
          /\ readers' = (readers \ {r}) \cup {[r EXCEPT !.stage = "getDocument"]}
     ELSE /\ IF StartsWith(r.file.type, ImagePrefix)
             THEN Commit(decodeDone(State, ImageDataUrl(r.file)))
             ELSE Commit([State EXCEPT !.progress = 100, !.isLoading = FALSE])
          /\ readers' = readers \ {r}
  /\ UNCHANGED <<watermarkText, images, canvas, downloads, fp, nsel, napply>>

\* reader.onerror
ReaderOnError(r) ==
  /\ canvas = Idle
  /\ r \in readers
  /\ r.stage = "read"
  /\ Commit([State EXCEPT !.error = ErrRead,
                          !.isLoading = FALSE,
                          !.progress = 0,
                          !.originalImagePreviewSrc = Null])
  /\ readers' = readers \ {r}
  /\ UNCHANGED <<watermarkText, images, canvas, downloads, fp, nsel, napply>>

\* await pdfjsLib.getDocument(...).promise settles: resolved iff the bytes
\* are a PDF document.
PdfGetDocumentSettled(r) ==
  /\ canvas = Idle
  /\ r \in readers
  /\ r.stage = "getDocument"
  /\ IF r.file.ok
     THEN /\ Commit([State EXCEPT !.progress = 50])
          /\ readers' = (readers \ {r}) \cup {[r EXCEPT !.stage = "getPage"]}
     ELSE /\ Commit(decodeFailed(State, ErrPdfLibrary))
          /\ readers' = readers \ {r}
  /\ UNCHANGED <<watermarkText, images, canvas, downloads, fp, nsel, napply>>

\* await pdf.getPage(1) resolves; the page canvas is created and
\* canvas.getContext('2d') returns a context (context = TRUE) or null.
PdfGetPageSettled(r) ==
  /\ canvas = Idle
  /\ r \in readers
  /\ r.stage = "getPage"
  /\ \E context \in BOOLEAN :
       IF context
       THEN /\ Commit(State)
            /\ readers' = (readers \ {r}) \cup {[r EXCEPT !.stage = "render"]}
       ELSE /\ Commit(decodeFailed(State, ErrPdfContext))
            /\ readers' = readers \ {r}
  /\ UNCHANGED <<watermarkText, images, canvas, downloads, fp, nsel, napply>>

\* await page.render(...).promise settles (rendered = TRUE: resolved).
PdfRenderSettled(r) ==
  /\ canvas = Idle
  /\ r \in readers
  /\ r.stage = "render"
  /\ \E rendered \in BOOLEAN :
       IF rendered
       THEN Commit(decodeDone([State EXCEPT !.progress = 70], PdfPageDataUrl(r.file)))
       ELSE Commit(decodeFailed(State, ErrPdfLibrary))
  /\ readers' = readers \ {r}
  /\ UNCHANGED <<watermarkText, images, canvas, downloads, fp, nsel, napply>>

\* ----------------------------------------------------------- watermarking
\* onChange of the watermark text input (Customize Watermark card).
SetWatermarkText(text) ==
  /\ canvas = Idle
  /\ CustomizeCard
  /\ text # watermarkText
  /\ watermarkText' = text
  /\ UNCHANGED <<originalFile, originalImagePreviewSrc, watermarkedImageSrc, isLoading,
                 progress, error, readers, images, canvas, downloads, fp, nsel, napply>>

\* Variant of ApplySource: a previous result, when there is one, is loaded
\* as the base image.
ApplySourceCumulative(s) ==
  IF s.watermarkedImageSrc # Null THEN s.watermarkedImageSrc
  ELSE s.originalImagePreviewSrc

\* The image that applyWatermark loads into the in-memory Image object.
ApplySource(s) == s.originalImagePreviewSrc

\* Variant of applyWatermark: no early return.
applyWatermarkUnguarded(s) ==
  [s EXCEPT !.isLoading = TRUE, !.error = NULL, !.progress = 0]

\* The state updates of applyWatermark up to img.src = ...
applyWatermark(s) ==
  IF s.originalImagePreviewSrc = Null
  THEN [s EXCEPT !.error = ErrNoPreview]
  ELSE [s EXCEPT !.isLoading = TRUE, !.error = NULL, !.progress = 0]

\* One run of the applyWatermark callback, to its early return or to
\* img.src = originalImagePreviewSrc.
ApplyWatermarkRun ==
  /\ Commit(applyWatermark(State))
  /\ images' = IF originalImagePreviewSrc = Null THEN images
               ELSE images \cup {[id |-> napply + 1,
                                  src |-> ApplySource(State),
                                  watermarkText |-> watermarkText]}
  /\ napply' = napply + 1
  /\ UNCHANGED <<watermarkText, readers, canvas, downloads, fp, nsel>>

\* "Apply Watermark" button: rendered with the Customize Watermark card,
\* disabled while isLoading.
ApplyWatermark ==
  /\ canvas = Idle
  /\ CustomizeCard
  /\ ~(isLoading \/ originalImagePreviewSrc = Null)      \* not disabled
  /\ napply < MaxApplies
  /\ ApplyWatermarkRun

\* The callback run without a preview.  The page never does this (its button
\* is rendered and enabled only with a preview); a caller of the callback can.
ApplyWatermarkCall ==
  /\ canvas = Idle
  /\ originalImagePreviewSrc = Null
  /\ napply < MaxApplies
  /\ ApplyWatermarkRun

\* img.onerror
ImgOnError(i) ==
  /\ canvas = Idle
  /\ i \in images
  /\ ~i.src.ok
  /\ Commit([State EXCEPT !.error = ErrImgLoad,
                          !.isLoading = FALSE,
                          !.progress = 0,
                          !.watermarkedImageSrc = Null])
  /\ images' = images \ {i}
  /\ UNCHANGED <<watermarkText, readers, canvas, downloads, fp, nsel, napply>>

\* Variant of CanvasWidth: the canvas takes the image's height as width.
CanvasWidthSwapped(img) == img.H

\* canvas.width = img.naturalWidth; canvas.height = img.naturalHeight
CanvasWidth(img)  == img.W
CanvasHeight(img) == img.H

\* img.onload from canvas creation to the start of the tiling loop.
StartComposite(i) ==
  LET W          == CanvasWidth(i.src)
      H          == CanvasHeight(i.src)
      text       == EffectiveText(i.watermarkText)
      fontSize25 == FontSize25(W, H)
      textWidth  == MeasureText(text, fontSize25)
      reps       == Repetitions(W, H, textWidth)
  IN  [pc            |-> "tiling",
       img           |-> i.src,
       W             |-> W,
       H             |-> H,
       marks         |-> i.src.marks,      \* ctx.drawImage(img, 0, 0, W, H)
       watermarkText |-> i.watermarkText,
       text          |-> text,
       fontSize25    |-> fontSize25,
       textWidth     |-> textWidth,
       repetitions   |-> reps,
       step          |-> Step(W, H, StepDivisor(reps)),
       transform     |-> TilingTransform(IdentityTransform, W, H),
       y             |-> 0,               \* additions of step to y so far
       points        |-> {},              \* grid points drawn at
       fillTexts     |-> 0]               \* parity of the fillText calls

\* img.onload: the canvas is created; without a 2d context the callback
\* throws at once, otherwise it draws the image and enters the tiling loop.
ImgOnLoad(i) ==
  /\ canvas = Idle
  /\ i \in images
  /\ i.src.ok
  /\ images' = images \ {i}
  /\ \E ctx \in BOOLEAN :
       IF ctx
       THEN /\ canvas' = StartComposite(i)
            /\ Commit(State)
       ELSE /\ canvas' = Idle
            /\ Commit([State EXCEPT !.error = ErrContext,
                                    !.watermarkedImageSrc = Null,
                                    !.isLoading = FALSE])
  /\ UNCHANGED <<watermarkText, readers, downloads, fp, nsel, napply>>

\* One iteration of the outer loop: the inner loop draws the row, y += step.
\* With step 0 the inner loop is never left: the step is one more of its
\* iterations, fillText at the same point and x += 0.
TileRow ==
  /\ canvas.pc = "tiling"
  /\ RowCondition(canvas.W, canvas.H, canvas.step, canvas.y, fp.row)
  /\ LET row == RowPoints(canvas.W, canvas.H, canvas.step, canvas.y, 0, fp.col)
     IN  canvas' = [canvas EXCEPT
                      !.points = @ \cup row,
                      !.fillTexts = (@ + Cardinality(row)) % 2,
                      !.y = IF canvas.step.kind = "zero" THEN @ ELSE @ + 1]
  /\ UNCHANGED <<originalFile, originalImagePreviewSrc, watermarkText,
                 watermarkedImageSrc, isLoading, progress, error, readers, images,
                 downloads, fp, nsel, napply>>

\* Variant of CanvasDataUrl: one canvas is kept between the runs and not
\* cleared, so a run draws over what the previous run left.
CanvasDataUrlKeptCanvas(c) ==
  [file  |-> c.img.file,
   W     |-> c.W,
   H     |-> c.H,
   ok    |-> TRUE,
   marks |-> Append(IF watermarkedImageSrc # Null THEN watermarkedImageSrc.marks
                    ELSE c.marks,
                    [text       |-> c.text,
                     fontSize25 |-> c.fontSize25,
                     points     |-> c.points]),
   base  |-> c.img]

\* canvas.toDataURL('image/png') after the loop
CanvasDataUrl(c) ==
  [file  |-> c.img.file,
   W     |-> c.W,
   H     |-> c.H,
   ok    |-> TRUE,
   marks |-> Append(c.marks, [text       |-> c.text,
                              fontSize25 |-> c.fontSize25,
                              points     |-> c.points]),
   base  |-> c.img]

\* The loop condition fails: the transform is restored, the canvas is
\* serialized and stored; finally isLoading is cleared.
TileDone ==
  /\ canvas.pc = "tiling"
  /\ ~RowCondition(canvas.W, canvas.H, canvas.step, canvas.y, fp.row)
  /\ Commit([State EXCEPT !.watermarkedImageSrc = CanvasDataUrl(canvas),
                          !.progress = 100,
                          !.isLoading = FALSE])
  /\ canvas' = Idle
  /\ UNCHANGED <<watermarkText, readers, images, downloads, fp, nsel, napply>>

\* ---------------------------------------------------------------- download
\* Variant of HandleDownload: the watermarked image is dropped once saved.
HandleDownloadConsumes ==
  /\ canvas = Idle
  /\ DownloadButton
  /\ ~(isLoading \/ watermarkedImageSrc = Null)
  /\ Len(downloads) < MaxDownloads
  /\ downloads' =
       IF watermarkedImageSrc = Null \/ originalFile = Null THEN downloads
       ELSE Append(downloads,
                   [download |-> DownloadName(originalFile.name, originalFile.type),
                    href     |-> watermarkedImageSrc,
                    file     |-> originalFile])
  /\ watermarkedImageSrc' = Null
  /\ UNCHANGED <<originalFile, originalImagePreviewSrc, watermarkText,
                 isLoading, progress, error, readers, images,
                 canvas, fp, nsel, napply>>

\* "Download Watermarked Image" button: rendered in the Preview & Download
\* card when watermarkedImageSrc is set, disabled while isLoading.
HandleDownload ==
  /\ canvas = Idle
  /\ DownloadButton
  /\ ~(isLoading \/ watermarkedImageSrc = Null)          \* not disabled
  /\ Len(downloads) < MaxDownloads
  /\ downloads' =
       IF watermarkedImageSrc = Null \/ originalFile = Null THEN downloads
       ELSE Append(downloads,
                   [download |-> DownloadName(originalFile.name, originalFile.type),
                    href     |-> watermarkedImageSrc,
                    file     |-> originalFile])
  /\ UNCHANGED <<originalFile, originalImagePreviewSrc, watermarkText,
                 watermarkedImageSrc, isLoading, progress, error, readers, images,
                 canvas, fp, nsel, napply>>

\* ----------------------------------------------------------- specification
Next ==
  \/ HandleFileChange
  \/ ResetClick
  \/ \E r \in readers : ReaderOnLoad(r)
  \/ \E r \in readers : ReaderOnError(r)
  \/ \E r \in readers : PdfGetDocumentSettled(r)
  \/ \E r \in readers : PdfGetPageSettled(r)
  \/ \E r \in readers : PdfRenderSettled(r)
  \/ \E text \in Texts : SetWatermarkText(text)
  \/ ApplyWatermark
  \/ \E i \in images : ImgOnError(i)
  \/ \E i \in images : ImgOnLoad(i)
  \/ TileRow
  \/ TileDone
  \/ HandleDownload

Spec == Init /\ [][Next]_vars

\* The page, and the applyWatermark callback also called without a preview.
NextCall ==
  \/ Next
  \/ ApplyWatermarkCall

CallSpec == Init /\ [][NextCall]_vars

\* One watermark application: a document has been selected and decoded, a
\* text typed and Apply Watermark clicked; the page then composites and the
\* user downloads.  Every rounding of the loop variables is considered.
Documents ==
  {f \in Files \cup MoreDocuments :
     ~UnsupportedType(f.type) /\ ~TooLarge(f.size) /\ f.ok}

InitApply ==
  \E f \in Documents, text \in Texts \cup MoreTexts :
    LET file    == FileObject(f, 1)
        preview == IF file.type = PdfType THEN PdfPageDataUrl(file)
                   ELSE ImageDataUrl(file)
    IN  /\ originalFile = file
        /\ originalImagePreviewSrc = preview
        /\ watermarkText = text
        /\ watermarkedImageSrc = Null
        /\ isLoading = TRUE
        /\ progress = 0
        /\ error = NULL
        /\ readers = {}
        /\ images = {[id |-> 1, src |-> preview, watermarkText |-> text]}
        /\ canvas = Idle
        /\ downloads = <<>>
        /\ fp \in [row : BOOLEAN, col : BOOLEAN]
        /\ nsel = 1
        /\ napply = 1

NextApply ==
  \/ \E i \in images : ImgOnLoad(i)
  \/ TileRow
  \/ TileDone
  \/ HandleDownload

ApplySpec == InitApply /\ [][NextApply]_vars

\* The running callback is never preempted: the loop takes its next step.
FairApplySpec == ApplySpec /\ WF_vars(TileRow) /\ WF_vars(TileDone)

\* Moreover every Image whose load was started fires onload or onerror.
FairLoadSpec ==
  /\ FairApplySpec
  /\ WF_vars(\E i \in images : ImgOnLoad(i))

\* ================================================================== claims
WatermarkedDot == <<"_", "w", "a", "t", "e", "r", "m", "a", "r", "k", "e", "d", ".">>
Png            == <<"p", "n", "g">>

\* ------------------------------------------------------------------ C1
\* C1: whenever applyWatermark succeeds on a decoded source image of width
\* W > 0 and height H > 0, the watermarked output has exactly width W and
\* height H.
C1_OutputHasSourceSize ==
  (watermarkedImageSrc # Null
     /\ watermarkedImageSrc.base.W > 0 /\ watermarkedImageSrc.base.H > 0)
  => /\ watermarkedImageSrc.W = watermarkedImageSrc.base.W
     /\ watermarkedImageSrc.H = watermarkedImageSrc.base.H

C1_Witness ==
  /\ watermarkedImageSrc # Null
  /\ watermarkedImageSrc.base.W = 400 /\ watermarkedImageSrc.base.H = 301
  /\ watermarkedImageSrc.W = 400 /\ watermarkedImageSrc.H = 301

\* ------------------------------------------------------------------ C2
\* C2: repeated application is not cumulative: a watermarked image is a
\* decoded source with exactly one watermark layer, the one of the call that
\* produced it; no applyWatermark call loads a watermarked output as its base
\* image, and compositing leaves the original preview as it is.
C2_BasesAreDecodedSources ==
  /\ originalImagePreviewSrc # Null => originalImagePreviewSrc.marks = <<>>
  /\ \A i \in images : i.src.marks = <<>>
  /\ canvas.pc = "tiling" => canvas.marks = <<>>
  /\ watermarkedImageSrc # Null =>
       /\ Len(watermarkedImageSrc.marks) = 1
       /\ watermarkedImageSrc.base.marks = <<>>

C2_NotCumulative ==
  /\ []C2_BasesAreDecodedSources
  /\ [][(canvas.pc = "tiling" /\ canvas'.pc = "idle") =>
          /\ originalImagePreviewSrc' = originalImagePreviewSrc
          /\ watermarkedImageSrc' # Null
          /\ watermarkedImageSrc'.base = canvas.img
          /\ Len(watermarkedImageSrc'.marks) = 1
          /\ watermarkedImageSrc'.marks[1].text = EffectiveText(canvas.watermarkText)]_vars

\* A second application with another text, after the first result was
\* downloaded.
C2_Witness ==
  /\ napply = 2
  /\ images = {}
  /\ Len(downloads) = 1
  /\ downloads[1].href.marks[1].text = DefaultText
  /\ watermarkedImageSrc # Null
  /\ watermarkedImageSrc.file = downloads[1].href.file
  /\ watermarkedImageSrc.marks[1].text = <<" ", " ", " ">>

\* ------------------------------------------------------------------ C3
\* String.prototype.trim for the white space of the model (the space).
RECURSIVE TrimStart(_)
TrimStart(s) ==
  IF s # <<>> /\ Head(s) = " " THEN TrimStart(Tail(s)) ELSE s

RECURSIVE TrimEnd(_)
TrimEnd(s) ==
  IF s # <<>> /\ s[Len(s)] = " " THEN TrimEnd(SubSeq(s, 1, Len(s) - 1)) ELSE s

Trim(s) == TrimEnd(TrimStart(s))

\* C3: for every input text that is empty or consists only of white space,
\* the text drawn by applyWatermark is "CONFIDENTIAL".
C3_BlankTextFallsBack ==
  (canvas.pc = "tiling" /\ Trim(canvas.watermarkText) = <<>>)
  => canvas.text = <<"C", "O", "N", "F", "I", "D", "E", "N", "T", "I", "A", "L">>

\* ------------------------------------------------------------------ C4
\* C4: when the measured text width is 0, repetitions and step are finite
\* numbers and step is strictly positive.
C4_ZeroWidthStepIsPositive ==
  (canvas.pc = "tiling" /\ canvas.textWidth = 0)
  => /\ canvas.repetitions.kind = "fin"
     /\ canvas.step.kind = "frac"
     /\ canvas.step.n > 0

\* ------------------------------------------------------------------ C5
\* C5: once compositing has started, the tiling loop terminates: the
\* callback reaches its end (watermarked image set, or error set).
C5_TilingTerminates ==
  (canvas.pc = "tiling") ~> (canvas.pc = "idle")

\* ------------------------------------------------------------------ C6
\* The outer loop has been left and the canvas is about to be serialized.
LoopExited ==
  /\ canvas.pc = "tiling"
  /\ ~RowCondition(canvas.W, canvas.H, canvas.step, canvas.y, fp.row)

\* Distinct y values at which text was drawn.
RowsDrawn == Cardinality({p[2] : p \in canvas.points})

\* n = max(5, ceil(diagonal / (0.7 * textWidth))) for the running callback,
\* stated through n * 0.7 * textWidth >= diagonal > (n - 1) * 0.7 * textWidth.
IsFlooredRepetitions(n) ==
  LET S  == 100 * (canvas.W * canvas.W + canvas.H * canvas.H)
      tw == 7 * canvas.textWidth
  IN  \/ n = 5 /\ (5 * tw) * (5 * tw) >= S
      \/ /\ n > 5
         /\ (n * tw) * (n * tw) >= S
         /\ ((n - 1) * tw) * ((n - 1) * tw) < S

\* C6 as claimed: for W, H > 0 and positive text width the number of outer
\* loop iterations (distinct rows) equals max(5, ceil(diagonal / (0.7 *
\* textWidth))).
C6_RowsEqualFlooredRepetitions ==
  (LoopExited /\ canvas.W > 0 /\ canvas.H > 0 /\ canvas.textWidth > 0)
  => /\ RowsDrawn = canvas.y
     /\ IsFlooredRepetitions(RowsDrawn)

\* C6 amended: the number of rows is max(5, ceil(diagonal / (0.7 *
\* textWidth))) or one more, and never below 5.
C6_AtLeastFiveRows ==
  (LoopExited /\ canvas.W > 0 /\ canvas.H > 0 /\ canvas.textWidth > 0)
  => /\ RowsDrawn = canvas.y
     /\ RowsDrawn >= 5
     /\ IsFlooredRepetitions(RowsDrawn) \/ IsFlooredRepetitions(RowsDrawn - 1)

\* A wide text on a small picture: the floor of 5 decides.
C6_Witness ==
  /\ LoopExited
  /\ canvas.W = 6 /\ canvas.H = 8 /\ canvas.textWidth = 72
  /\ RowsDrawn = 5

\* ------------------------------------------------------------------ C7
\* C7: the font size is max(12, min(W, H) / 25): exactly 12 whenever
\* min(W, H) <= 300, min(W, H) / 25 above that, never below 12 (12 for
\* W = H = 250, 40 for W = H = 1000).
C7_FontSize ==
  canvas.pc = "tiling" =>
    LET m == IF canvas.W < canvas.H THEN canvas.W ELSE canvas.H
    IN  /\ canvas.fontSize25 >= 12 * 25
        /\ m <= 300 => canvas.fontSize25 = 12 * 25
        /\ m > 300 => canvas.fontSize25 = m
        /\ (canvas.W = 250 /\ canvas.H = 250) => canvas.fontSize25 = 12 * 25
        /\ (canvas.W = 1000 /\ canvas.H = 1000) => canvas.fontSize25 = 40 * 25

C7_Witness ==
  /\ canvas.pc = "tiling"
  /\ canvas.W = 250 /\ canvas.H = 250
  /\ canvas.fontSize25 = 300

\* ------------------------------------------------------------------ C8
SupportedType(type) ==
  \/ type = <<"a", "p", "p", "l", "i", "c", "a", "t", "i", "o", "n", "/", "p", "d", "f">>
  \/ /\ Len(type) >= 6
     /\ SubSeq(type, 1, 6) = <<"i", "m", "a", "g", "e", "/">>

\* C8: a file whose MIME type is neither application/pdf nor starts with
\* image/ is never stored as originalFile, is never decoded, never produces
\* a preview and is never composited.
C8_UnsupportedNeverReachesCompositor ==
  /\ originalFile # Null => SupportedType(originalFile.type)
  /\ \A r \in readers : SupportedType(r.file.type)
  /\ originalImagePreviewSrc # Null => SupportedType(originalImagePreviewSrc.file.type)
  /\ \A i \in images : SupportedType(i.src.file.type)
  /\ canvas.pc = "tiling" => SupportedType(canvas.img.file.type)
  /\ watermarkedImageSrc # Null => SupportedType(watermarkedImageSrc.file.type)

\* A text file was picked after a document had been watermarked.
C8_Witness ==
  /\ error = ErrUnsupported
  /\ originalFile = Null
  /\ nsel = 2
  /\ napply >= 1

\* ------------------------------------------------------------------ C9
\* What handleFileChange leaves behind when it rejects a file for its size.
RejectedAsTooLarge ==
  /\ error' = "File is too large. Maximum size is 20MB."
  /\ originalFile' = Null
  /\ readers' = readers

\* C9: handleFileChange rejects a file of supported type exactly when its
\* size is > 20*1024*1024 bytes; otherwise the file becomes originalFile and
\* its decode starts.
C9_SizeLimitInclusive ==
  [][\A f \in Files :
       LET file == FileObject(f, nsel + 1)
       IN  (HandleFileChangeOn(file) /\ SupportedType(f.type)) =>
             /\ RejectedAsTooLarge <=> f.size > 20 * 1024 * 1024
             /\ f.size <= 20 * 1024 * 1024 =>
                  /\ originalFile' = file
                  /\ error' = NULL
                  /\ [file |-> file, stage |-> "read"] \in readers']_vars

\* A file of exactly 20 MiB is being decoded.
C9_Witness ==
  /\ originalFile # Null
  /\ originalFile.size = 20971520
  /\ \E r \in readers : r.file = originalFile

\* ------------------------------------------------------------------ C10
\* Position of the last "." of s, 0 if there is none.
LastDot(s) ==
  IF \E k \in 1..Len(s) : s[k] = "."
  THEN CHOOSE k \in 1..Len(s) : s[k] = "." /\ \A l \in (k + 1)..Len(s) : s[l] # "."
  ELSE 0

\* C10 as claimed: for a name with a non-empty part before its last dot the
\* download is '<name up to the last dot>_watermarked.<ext>', <ext> being
\* 'png' for application/pdf and otherwise the part after the last dot.
C10_DownloadName ==
  \A n \in 1..Len(downloads) :
    LET name == downloads[n].file.name
        k    == LastDot(name)
    IN  k > 1 =>
          downloads[n].download =
            SubSeq(name, 1, k - 1) \o WatermarkedDot \o
              (IF downloads[n].file.type = PdfType THEN Png
               ELSE SubSeq(name, k + 1, Len(name)))

\* C10 amended: <ext> is 'png' for application/pdf and when nothing follows
\* the last dot, and otherwise the part after the last dot.
C10_DownloadNameOrPng ==
  \A n \in 1..Len(downloads) :
    LET name == downloads[n].file.name
        k    == LastDot(name)
    IN  k > 1 =>
          downloads[n].download =
            SubSeq(name, 1, k - 1) \o WatermarkedDot \o
              (IF downloads[n].file.type = PdfType \/ k = Len(name) THEN Png
               ELSE SubSeq(name, k + 1, Len(name)))

C10_Witness ==
  /\ Len(downloads) = 1
  /\ downloads[1].file.name =
       <<"m", "y", ".", "i", "d", ".", "c", "a", "r", "d", ".", "j", "p", "g">>
  /\ downloads[1].download =
       <<"m", "y", ".", "i", "d", ".", "c", "a", "r", "d", "_", "w", "a", "t", "e",
         "r", "m", "a", "r", "k", "e", "d", ".", "j", "p", "g">>

\* ------------------------------------------------------------------ C11
\* C11: for a non-PDF original whose name has no dot the download is named
\* '<whole name>_watermarked.png' ('scan' of type image/png gives
\* 'scan_watermarked.png').
C11_NoExtensionKeepsName ==
  \A n \in 1..Len(downloads) :
    LET file == downloads[n].file
    IN  (file.type # PdfType /\ LastDot(file.name) = 0 /\ file.name # <<>>) =>
          downloads[n].download = file.name \o WatermarkedDot \o Png

\* ------------------------------------------------------------------ C12
\* C12: for a PDF original whose name has no dot the download is named
\* 'document_watermarked.png'.
C12_PdfNoExtensionIsDocumentPng ==
  \A n \in 1..Len(downloads) :
    LET file == downloads[n].file
    IN  (file.type = PdfType /\ LastDot(file.name) = 0) =>
          downloads[n].download =
            <<"d", "o", "c", "u", "m", "e", "n", "t">> \o WatermarkedDot \o Png

C12_Witness ==
  /\ Len(downloads) = 1
  /\ downloads[1].file.name = <<"c", "o", "n", "t", "r", "a", "c", "t">>
  /\ downloads[1].file.type = PdfType
  /\ downloads[1].download =
       <<"d", "o", "c", "u", "m", "e", "n", "t", "_", "w", "a", "t", "e", "r", "m",
         "a", "r", "k", "e", "d", ".", "p", "n", "g">>

\* ------------------------------------------------------------------ C13
\* The preview that a successful decode of file stores.
DecodedImage(file) ==
  IF file.type = PdfType THEN PdfPageDataUrl(file) ELSE ImageDataUrl(file)

DecodeErrors    == {ErrRead, ErrPdfContext, ErrPdfLibrary}
CompositeErrors == {ErrImgLoad, ErrContext}

\* The step ends the decode of r's file: no callback of it is pending after.
DecodeEnds(r) == r \in readers /\ \A q \in readers' : q.file # r.file

\* The step ends a compositing operation without entering the tiling loop.
CompositeFails ==
  /\ images' # images /\ images' \subseteq images
  /\ canvas = Idle /\ canvas' = Idle

\* Nothing of the document is on screen.
NothingShown == ~OriginalPreview /\ ~WatermarkedPreview /\ ~DownloadButton

\* C13: a decode that ends without storing its image leaves
\* originalImagePreviewSrc null with a decode error; a compositing operation
\* that fails leaves watermarkedImageSrc null with a compositing error; and
\* in every state with error non-null neither preview nor the download
\* button is rendered.
C13_ErrorDiscardsOutput ==
  /\ [](error # NULL => NothingShown)
  /\ [][\A r \in readers :
          DecodeEnds(r) =>
            \/ originalImagePreviewSrc' = DecodedImage(r.file) /\ error' = error
            \/ /\ originalImagePreviewSrc' = Null
               /\ error' \in DecodeErrors
               /\ ~isLoading']_vars
  /\ [][CompositeFails =>
          /\ watermarkedImageSrc' = Null
          /\ error' \in CompositeErrors
          /\ ~isLoading']_vars

\* An error is displayed while a decoded source and a watermarked image of
\* an earlier success are still held in the state.
C13_Witness ==
  /\ error \in DecodeErrors \cup CompositeErrors
  /\ ~isLoading
  /\ originalImagePreviewSrc # Null
  /\ watermarkedImageSrc # Null

\* ------------------------------------------------------------------ C14
\* The compositing operation is over with exactly one of: its output is set
\* and error is null; error is set and the output is null.
ApplySettled ==
  /\ ~isLoading
  /\ (watermarkedImageSrc # Null /\ error = NULL)
       # (error # NULL /\ watermarkedImageSrc = Null)

\* C14: when every started Image load fires its callback and the running
\* callback goes on, every state with isLoading = TRUE is followed by a state
\* with isLoading = FALSE in which the operation has either its output and
\* no error or an error and no output (the file input, always rendered and
\* never disabled, accepts a new selection in every state).
C14_ReturnsToIdle == isLoading ~> ApplySettled

\* ------------------------------------------------------------------ C15
\* The step runs a callback of the decode r.
DecodeCallback(r) == r \in readers /\ r \notin readers'

\* C15: a callback of the decode of a file that is no longer the selected
\* one (another file was selected, or the selection was cleared, while the
\* decode was in flight) changes none of originalImagePreviewSrc, isLoading,
\* progress and error.
C15_StaleDecodeHasNoEffect ==
  [][\A r \in readers :
       (DecodeCallback(r) /\ r.file # originalFile) =>
         UNCHANGED <<originalImagePreviewSrc, isLoading, progress, error>>]_vars

\* ------------------------------------------------------------------ C16
\* C16: every download saves a watermarked image composited from the file
\* selected at the time of the click; every compositing operation starts
\* from the decoded image of the file selected at that time; and every
\* decode is of a file that passed the type and size validation.
C16_StrictOrder ==
  /\ [](/\ \A n \in 1..Len(downloads) :
             downloads[n].href.file = downloads[n].file
        /\ \A r \in readers :
             ~UnsupportedType(r.file.type) /\ ~TooLarge(r.file.size))
  /\ [][\A i \in images' \ images : i.src.file = originalFile]_vars

\* ------------------------------------------------------------------ C17
\* The applyWatermark invocations between their start and the end of their
\* completion callback: Images still loading, and the callback now running.
CompositesInFlight ==
  Cardinality(images) + (IF canvas.pc = "tiling" THEN 1 ELSE 0)

\* C17: at most one compositing operation is in flight in every reachable
\* state.
C17_OneCompositeInFlight == CompositesInFlight <= 1

\* ------------------------------------------------------------------ C18
\* C18: compositing a source with W = 0 or H = 0 never stores a watermarked
\* image (it ends with error set and watermarkedImageSrc null): every stored
\* watermarked image comes from a source of positive width and height.
C18_ZeroAreaNeverStored ==
  watermarkedImageSrc # Null =>
    watermarkedImageSrc.base.W > 0 /\ watermarkedImageSrc.base.H > 0

\* ------------------------------------------------------------------ C19
RECURSIVE Grid(_, _, _, _)
\* The grid points of rows i, i + 1, ... of the tiling of a W x H canvas.
Grid(W, H, step, i) ==
  IF step.kind = "zero" \/ ~RowCondition(W, H, step, i, ExactRounding.row) THEN {}
  ELSE RowPoints(W, H, step, i, 0, ExactRounding.col) \cup Grid(W, H, step, i + 1)

\* The watermarked image as a function of the source image and the text of
\* the input, and of nothing else.
Composite(src, text) ==
  LET drawn      == EffectiveText(text)
      fontSize25 == FontSize25(src.W, src.H)
      textWidth  == MeasureText(drawn, fontSize25)
      step       == Step(src.W, src.H,
                         StepDivisor(Repetitions(src.W, src.H, textWidth)))
  IN  [file  |-> src.file,
       W     |-> src.W,
       H     |-> src.H,
       ok    |-> TRUE,
       marks |-> Append(src.marks, [text       |-> drawn,
                                    fontSize25 |-> fontSize25,
                                    points     |-> Grid(src.W, src.H, step, 0)]),
       base  |-> src]

\* C19: the image a run of applyWatermark stores is Composite of the
\* originalImagePreviewSrc and the watermarkText of the click, whatever
\* happened before and during the run: the Image is given that source and
\* that text, its onload works on them, and the stored result is their
\* Composite.
C19_CompositeIsAFunction ==
  /\ [][\A i \in images' \ images :
          i.src = originalImagePreviewSrc /\ i.watermarkText = watermarkText]_vars
  /\ [][(canvas.pc = "idle" /\ canvas'.pc = "tiling") =>
          \E i \in images \ images' :
            canvas'.img = i.src /\ canvas'.watermarkText = i.watermarkText]_vars
  /\ [][(canvas.pc = "tiling" /\ canvas'.pc = "idle") =>
          watermarkedImageSrc' = Composite(canvas.img, canvas.watermarkText)]_vars

\* A second run on the same source with the same text is about to store its
\* result while the result of the first run is in the state, after another
\* selection.
C19_Witness ==
  /\ napply = 2 /\ nsel = 2
  /\ canvas.pc = "tiling"
  /\ ~RowCondition(canvas.W, canvas.H, canvas.step, canvas.y, fp.row)
  /\ watermarkedImageSrc # Null
  /\ watermarkedImageSrc.base = canvas.img
  /\ watermarkedImageSrc.marks[1].text = canvas.text
  /\ watermarkedImageSrc = CanvasDataUrl(canvas)

\* ------------------------------------------------------------------ C21
\* C21: in every reachable state a non-null originalImagePreviewSrc comes
\* with a non-null originalFile and was decoded from that file.
C21_PreviewOfSelectedFile ==
  originalImagePreviewSrc # Null =>
    originalFile # Null /\ originalImagePreviewSrc.file = originalFile

\* ------------------------------------------------------------------ C22
\* C22: in every reachable state a non-null watermarkedImageSrc was
\* composited from the current originalImagePreviewSrc, itself the image of
\* the current originalFile.
C22_WatermarkedOfSelectedFile ==
  watermarkedImageSrc # Null =>
    /\ watermarkedImageSrc.base = originalImagePreviewSrc
    /\ originalFile # Null
    /\ watermarkedImageSrc.base.file = originalFile

\* ------------------------------------------------------------------ C23
Rejections == {ErrUnsupported, ErrTooLarge}

\* The file is rejected by handleFileChange.
Rejected(file) == UnsupportedType(file.type) \/ TooLarge(file.size)

\* The type is validated before the size, and a rejection leaves no file, no
\* watermarked image, no loading, progress 0 and starts no decode.
C23_CleanRejection ==
  [][\A f \in Files :
       LET file == FileObject(f, nsel + 1)
       IN  (HandleFileChangeOn(file) /\ Rejected(file)) =>
             /\ error' = IF UnsupportedType(file.type) THEN ErrUnsupported
                         ELSE ErrTooLarge
             /\ originalFile' = Null
             /\ watermarkedImageSrc' = Null
             /\ ~isLoading'
             /\ progress' = 0
             /\ readers' = readers]_vars

\* The rejection error stays until the next file selection (no reset can be
\* clicked meanwhile: its button is rendered only with a file selected).
C23_RejectionErrorStays ==
  [][(error \in Rejections /\ nsel' = nsel) => error' = error]_vars

\* C23: handleFileChange validates the type before the size, leaves a clean
\* rejected state, and the rejection error stays set until the next file
\* selection or reset.
C23_Rejection == C23_CleanRejection /\ C23_RejectionErrorStays

\* ------------------------------------------------------------------ C24
\* C24: a run of applyWatermark with originalImagePreviewSrc null sets error
\* to the 'no preview' message and changes nothing else: isLoading, progress,
\* originalFile, watermarkText and watermarkedImageSrc keep their values and
\* no Image is created.
C24_ApplyWithoutPreview ==
  [][(originalImagePreviewSrc = Null /\ napply' = napply + 1) =>
       /\ error' = ErrNoPreview
       /\ UNCHANGED <<isLoading, progress, originalFile, watermarkText,
                      watermarkedImageSrc, originalImagePreviewSrc,
                      images, canvas>>]_vars

\* The callback has run without a preview while a watermarked image of an
\* earlier run was in the state, and left it there.
C24_Witness ==
  /\ error = ErrNoPreview
  /\ originalImagePreviewSrc = Null
  /\ watermarkedImageSrc # Null
  /\ images = {}

\* ------------------------------------------------------------------ C25
\* C25: after resetState (the Clear Selection & Reset button, or a change of
\* the file input to no file) originalFile, originalImagePreviewSrc and
\* watermarkedImageSrc are null, isLoading is false, progress is 0 and error
\* is null, and watermarkText is unchanged.
C25_ResetState ==
  [][(ResetClick \/ HandleFileChangeOn(Null)) =>
       /\ originalFile' = Null
       /\ originalImagePreviewSrc' = Null
       /\ watermarkedImageSrc' = Null
       /\ ~isLoading'
       /\ progress' = 0
       /\ error' = NULL
       /\ watermarkText' = watermarkText]_vars

\* Everything is back to its initial value after a watermark was applied
\* with a text of the user's, and the text is still there.
C25_Witness ==
  /\ nsel >= 1 /\ napply >= 1
  /\ originalFile = Null
  /\ originalImagePreviewSrc = Null
  /\ watermarkedImageSrc = Null
  /\ ~isLoading /\ progress = 0 /\ error = NULL
  /\ watermarkText # DefaultText

\* ------------------------------------------------------------------ C26
\* C26: a click on the download button triggers no download when
\* originalFile is null (the button is not there when watermarkedImageSrc is
\* null) and exactly one download of watermarkedImageSrc otherwise; it
\* changes none of originalFile, originalImagePreviewSrc,
\* watermarkedImageSrc, watermarkText, isLoading, progress and error, and
\* the button is still there for another download.  No download is ever
\* triggered without a file and an image.
C26_DownloadChangesNoState ==
  /\ [][HandleDownload =>
          /\ UNCHANGED <<originalFile, originalImagePreviewSrc, watermarkedImageSrc,
                         watermarkText, isLoading, progress, error>>
          /\ IF originalFile = Null THEN downloads' = downloads
             ELSE /\ Len(downloads') = Len(downloads) + 1
                  /\ SubSeq(downloads', 1, Len(downloads)) = downloads
                  /\ downloads'[Len(downloads')].href = watermarkedImageSrc
          /\ DownloadButton' /\ ~isLoading']_vars
  /\ [](\A n \in 1..Len(downloads) :
          downloads[n].file # Null /\ downloads[n].href # Null)

\* The watermarked image has been downloaded and is still offered.
C26_Witness ==
  /\ Len(downloads) = 1
  /\ DownloadButton /\ ~isLoading
  /\ watermarkedImageSrc = downloads[1].href
  /\ originalFile = downloads[1].file

\* ------------------------------------------------------------------ C27
\* The grid points <<j, i>> with 0 <= i < rows and 0 <= j < cols; <<j, i>>
\* stands for (x, y) = (-d/2 + j * 2.5 * step, -d/2 + i * step).
Rect(rows, cols) == {<<j, i>> : j \in 0..(cols - 1), i \in 0..(rows - 1)}

\* ceil(rows / 2.5)
ColsOf(rows) == CeilDiv(2 * rows, 5)

WithinHalfDiagonal(c, W, H) == c * c <= 2 * DiagonalSq(W, H)

\* C28: for W, H > 0 each corner of the image has, in the frame centred at
\* (W/2, H/2) and rotated by -45 degrees, both coordinates of absolute value
\* at most diagonal / 2.
C28_CornersCovered ==
  (canvas.pc = "tiling" /\ canvas.W > 0 /\ canvas.H > 0) =>
    \A p \in Corners(canvas.W, canvas.H) :
      LET f == FrameCoordinates(p, canvas.W, canvas.H)
      IN  /\ WithinHalfDiagonal(f[1], canvas.W, canvas.H)
          /\ WithinHalfDiagonal(f[2], canvas.W, canvas.H)

\* An oblong picture being tiled: its top right corner (400, 0) has the
\* frame coordinates (701, 99) / (2 sqrt 2), about (247.8, 35.0), within the
\* half diagonal of about 250.3.
C28_Witness ==
  /\ canvas.pc = "tiling"
  /\ canvas.W = 400 /\ canvas.H = 301
  /\ FrameCoordinates(<<800, 0>>, canvas.W, canvas.H) = <<701, 99>>
  /\ <<800, 0>> \in Corners(canvas.W, canvas.H)

\* ------------------------------------------------------------------ C29
\* C29: when the tiling loop is left, rotate(-angle) and translate(-W/2,
\* -H/2) bring the context's transform back to the identity it had before
\* translate(W/2, H/2) and rotate(angle), for every W and H.
C29_TransformRestored ==
  LoopExited =>
    /\ canvas.transform = TilingTransform(IdentityTransform, canvas.W, canvas.H)
    /\ ResetTransform(canvas.transform, canvas.W, canvas.H) = IdentityTransform

\* The loop is left on a 400 x 301 canvas whose transform is the rotation by
\* -45 degrees about (200, 150.5).
C29_Witness ==
  /\ LoopExited
  /\ canvas.W = 400 /\ canvas.H = 301
  /\ canvas.transform # IdentityTransform
  /\ canvas.transform.a = <<0, 2>>
  /\ canvas.transform.e = <<800, 0>>
  /\ canvas.transform.f = <<602, 0>>

=============================================================================
